---------------------------- MODULE Spec2Model ----------------------------
(***************************************************************************)
(* The uniform-buffer sample of vulkan-gltf: the setup sequence of main,   *)
(* the select loop of main, VulkanDrawFrame, the GPU queue / presentation  *)
(* engine it talks to, and the teardown DestroyInOrder.                    *)
(*                                                                         *)
(* Go slices are functions over 0..n-1 (the nil slice is the empty         *)
(* function <<>>), so that indices are the source's indices.               *)
(***************************************************************************)
EXTENDS Naturals, Integers, Sequences, FiniteSets, TLC

VARIABLES
    v, s, r, vb, ib, gfx,   \* the six aggregates main declares
    created,                \* handles the native API has created so far
    cmdRecord,              \* what each command buffer was recorded with
    descWrites,             \* descriptor set -> uniform buffer it refers to
    pc,                     \* position of the main goroutine
    exitC, doneC,           \* number of values buffered in the two channels
    shouldClose,            \* window.ShouldClose()
    ticks,                  \* ticks handled while the window was still open
    drawCalls,              \* VulkanDrawFrame invocations
    presentCalls,           \* vk.QueuePresent calls issued
    skipped,                \* frames left at acquire, submit or fence wait
    teardowns,              \* DestroyInOrder invocations
    nextIdx,                \* VulkanDrawFrame's local nextIdx
    frameLog,               \* native calls of the current / last frame
    ret,                    \* what the last VulkanDrawFrame returned
    images,                 \* swapchain image index -> who holds the image
    queue,                  \* submissions pending on the single queue
    fenceSignaled,          \* state of the single fence
    semSignals,             \* signals outstanding on the single semaphore
    tdQueue,                \* destruction calls DestroyInOrder has still to issue
    destroyLog,             \* destruction calls issued so far
    setupLog,               \* setup calls main has made, with their outcome
    callIn,                 \* a single library call under study: its inputs
    callOut                 \* ... and what it did and returned

vars == <<v, s, r, vb, ib, gfx, created, cmdRecord, descWrites, pc, exitC,
          doneC, shouldClose, ticks, drawCalls, presentCalls, skipped,
          teardowns, nextIdx, frameLog, ret, images, queue, fenceSignaled,
          semSignals, tdQueue, destroyLog, setupLog, callIn, callOut>>

progVars == <<v, s, r, vb, ib, gfx, created, cmdRecord, descWrites>>
loopVars == <<exitC, doneC, shouldClose, ticks, drawCalls, presentCalls,
              skipped, nextIdx, frameLog, ret>>
gpuVars  == <<images, queue, fenceSignaled, semSignals>>
setupVars == <<setupLog, callIn, callOut>>

---------------------------------------------------------------------------
(* Bounds of the model. *)

\* vk.GetSwapchainImages may report 1..MaxImages images.
MaxImages == 2
\* frames attempted before the model stops delivering open-window ticks.
MaxFrames == 3

(* Program constants. *)

\* doneC := make(chan struct{}, 2); exitC := make(chan struct{}, 2)
ChanCap == 2

---------------------------------------------------------------------------
(* Handles. *)

H(kind, i) == <<kind, i>>
HIndex(h) == h[2]
Null == <<"null", 0>>

SliceLen(f) == Cardinality(DOMAIN f)
Range(f) == {f[i] : i \in DOMAIN f}
NilSlice == <<>>
MakeSlice(n, e) == [i \in 0..(n - 1) |-> e]

---------------------------------------------------------------------------
(* The zero values of the aggregates (var ( v ... gfx ) in main). *)

ZeroV == [Instance |-> Null, Surface |-> Null, Device |-> Null,
          Queue |-> Null, dbg |-> Null, gpuDevices |-> NilSlice]
ZeroS == [Device |-> Null, Swapchains |-> NilSlice, SwapchainLen |-> NilSlice,
          uniformBuffer |-> NilSlice, Framebuffers |-> NilSlice,
          DisplayViews |-> NilSlice, DescLayout |-> Null, descPool |-> Null,
          descriptorSet |-> NilSlice]
ZeroR == [device |-> Null, RenderPass |-> Null, cmdPool |-> Null,
          cmdBuffers |-> NilSlice, semaphores |-> NilSlice, fences |-> NilSlice]
ZeroBuf == [device |-> Null, buffers |-> NilSlice]
ZeroGfx == [device |-> Null, pipelineLayout |-> Null, pipelineCache |-> Null,
            pipeline |-> Null]

ZeroProg == [v |-> ZeroV, s |-> ZeroS, r |-> ZeroR, vb |-> ZeroBuf,
             ib |-> ZeroBuf, gfx |-> ZeroGfx, created |-> {},
             cmdRecord |-> <<>>, descWrites |-> <<>>, setupLog |-> <<>>]

\* no library call is under study
NoCall == [fn |-> "none"]

---------------------------------------------------------------------------
(* The setup calls of main, each on its success path.  P is the program    *)
(* state (the aggregates and the objects created), n the number of images  *)
(* the swapchain turns out to have.                                        *)

NewVulkanDevice(P) ==
    [P EXCEPT !.v = [Instance |-> H("Instance", 0), Surface |-> H("Surface", 0),
                     Device |-> H("Device", 0), Queue |-> H("Queue", 0),
                     dbg |-> Null,
                     gpuDevices |-> MakeSlice(1, H("PhysicalDevice", 0))],
              !.created = @ \cup {H("Instance", 0), H("Surface", 0), H("Device", 0)}]

CreateSwapchain(P, n) ==
    [P EXCEPT !.s = [@ EXCEPT
                 !.DescLayout = H("DescriptorSetLayout", 0),
                 !.Swapchains = MakeSlice(1, H("Swapchain", 0)),
                 !.SwapchainLen = MakeSlice(1, n),
                 !.uniformBuffer = [i \in 0..(n - 1) |->
                                      [Buffer |-> H("UniformBuffer", i),
                                       Memory |-> H("UniformMemory", i)]],
                 !.Device = P.v.Device],
              !.created = @ \cup {H("DescriptorSetLayout", 0), H("Swapchain", 0)}
                            \cup {H("UniformBuffer", i) : i \in 0..(n - 1)}
                            \cup {H("UniformMemory", i) : i \in 0..(n - 1)}]

CreateRenderer(P) ==
    [P EXCEPT !.r = [@ EXCEPT !.RenderPass = H("RenderPass", 0),
                              !.cmdPool = H("CommandPool", 0),
                              !.device = P.v.Device],
              !.created = @ \cup {H("RenderPass", 0), H("CommandPool", 0)}]

CreateDescriptorPool(P) ==
    [P EXCEPT !.s = [@ EXCEPT !.descPool = H("DescriptorPool", 0)],
              !.created = @ \cup {H("DescriptorPool", 0)}]

\* the buffer the i-th descriptor set is updated to refer to
DescriptorBuffer(sw, i) == sw.uniformBuffer[i].Buffer

CreateDescriptorSet(P) ==
    LET n == P.s.SwapchainLen[0] IN
    [P EXCEPT !.s = [@ EXCEPT !.descriptorSet =
                        [i \in 0..(n - 1) |-> H("DescriptorSet", i)]],
              !.descWrites = [d \in {H("DescriptorSet", i) : i \in 0..(n - 1)} |->
                                 DescriptorBuffer(P.s, HIndex(d))],
              !.created = @ \cup {H("DescriptorSet", i) : i \in 0..(n - 1)}]

\* (variant: a single image view whatever the number of images)
CreateFramebuffersSingleView(P, n) ==
    [P EXCEPT !.s = [@ EXCEPT
                 !.DisplayViews = MakeSlice(1, H("ImageView", 0)),
                 !.Framebuffers = [i \in 0..(P.s.SwapchainLen[0] - 1) |->
                                      H("Framebuffer", i)]],
              !.created = @ \cup {H("ImageView", 0)}
                            \cup {H("Framebuffer", i) :
                                      i \in 0..(P.s.SwapchainLen[0] - 1)}]

CreateFramebuffers(P, n) ==
    [P EXCEPT !.s = [@ EXCEPT
                 !.DisplayViews = [i \in 0..(n - 1) |-> H("ImageView", i)],
                 !.Framebuffers = [i \in 0..(P.s.SwapchainLen[0] - 1) |->
                                      H("Framebuffer", i)]],
              !.created = @ \cup {H("ImageView", i) : i \in 0..(n - 1)}
                            \cup {H("Framebuffer", i) :
                                      i \in 0..(P.s.SwapchainLen[0] - 1)}]

CreateVertexBuffers(P) ==
    [P EXCEPT !.vb = [device |-> P.v.Device,
                      buffers |-> MakeSlice(1, H("VertexBuffer", 0))],
              !.created = @ \cup {H("VertexBuffer", 0), H("VertexMemory", 0)}]

CreateIndexBuffers(P) ==
    [P EXCEPT !.ib = [device |-> P.v.Device,
                      buffers |-> MakeSlice(1, H("IndexBuffer", 0))],
              !.created = @ \cup {H("IndexBuffer", 0), H("IndexMemory", 0)}]

\* the two shader modules are created and destroyed inside the call
CreateGraphicsPipeline(P) ==
    [P EXCEPT !.gfx = [device |-> P.v.Device,
                       pipelineLayout |-> H("PipelineLayout", 0),
                       pipelineCache |-> H("PipelineCache", 0),
                       pipeline |-> H("Pipeline", 0)],
              !.created = @ \cup {H("PipelineLayout", 0), H("PipelineCache", 0),
                                  H("Pipeline", 0)}]

CreateCommandBuffers(P, n) ==
    [P EXCEPT !.r = [@ EXCEPT !.cmdBuffers =
                        [i \in 0..(n - 1) |-> H("CommandBuffer", i)]],
              !.created = @ \cup {H("CommandBuffer", i) : i \in 0..(n - 1)}]

\* what VulkanInit records into r.cmdBuffers[i]
RecordedCommands(P, i) ==
    [Framebuffer |-> P.s.Framebuffers[i],
     Pipeline |-> P.gfx.pipeline,
     DescriptorSet |-> P.s.descriptorSet[i],
     VertexBuffers |-> P.vb.buffers,
     IndexBuffer |-> P.ib.buffers[0]]

VulkanInit(P) ==
    [P EXCEPT !.cmdRecord = [c \in Range(P.r.cmdBuffers) |->
                                RecordedCommands(P, HIndex(c))],
              !.r = [@ EXCEPT !.fences = MakeSlice(1, H("Fence", 0)),
                              !.semaphores = MakeSlice(1, H("Semaphore", 0))],
              !.created = @ \cup {H("Fence", 0), H("Semaphore", 0)}]

\* the native calls of VulkanInit whose result goes to check()
VulkanInitChecked ==
    {"vk.BeginCommandBuffer", "vk.EndCommandBuffer", "vk.CreateFence",
     "vk.CreateSemaphore"}

\* VulkanInit when its native call x fails: check() logs the failure and
\* VulkanInit goes on; a fence or semaphore that was not created leaves the
\* null handle in its slot.  (The validity of a command buffer whose
\* recording failed is not tracked.)
VulkanInitFailing(P, x) ==
    LET fence == IF x = "vk.CreateFence" THEN Null ELSE H("Fence", 0)
        sem == IF x = "vk.CreateSemaphore" THEN Null ELSE H("Semaphore", 0)
    IN
    [P EXCEPT !.cmdRecord = [c \in Range(P.r.cmdBuffers) |->
                                RecordedCommands(P, HIndex(c))],
              !.r = [@ EXCEPT !.fences = MakeSlice(1, fence),
                              !.semaphores = MakeSlice(1, sem)],
              !.created = @ \cup ({fence, sem} \ {Null})]

\* the setup calls of main, in the order main makes them
SetupCalls ==
    <<"NewVulkanDevice", "CreateSwapchain", "CreateRenderer",
      "CreateDescriptorPool", "CreateDescriptorSet", "CreateFramebuffers",
      "CreateVertexBuffers", "CreateIndexBuffers", "CreateGraphicsPipeline",
      "CreateCommandBuffers", "VulkanInit">>

\* the k-th setup call of main applied to P
SetupStep(P, k, n) ==
    LET c == SetupCalls[k] IN
    CASE c = "NewVulkanDevice" -> NewVulkanDevice(P)
      [] c = "CreateSwapchain" -> CreateSwapchain(P, n)
      [] c = "CreateRenderer" -> CreateRenderer(P)
      [] c = "CreateDescriptorPool" -> CreateDescriptorPool(P)
      [] c = "CreateDescriptorSet" -> CreateDescriptorSet(P)
      [] c = "CreateFramebuffers" -> CreateFramebuffers(P, n)
      [] c = "CreateVertexBuffers" -> CreateVertexBuffers(P)
      [] c = "CreateIndexBuffers" -> CreateIndexBuffers(P)
      [] c = "CreateGraphicsPipeline" -> CreateGraphicsPipeline(P)
      [] c = "CreateCommandBuffers" -> CreateCommandBuffers(P, P.s.SwapchainLen[0])
      [] OTHER -> VulkanInit(P)

\* the program state after the first k setup calls have succeeded
RECURSIVE SetupPrefix(_, _)
SetupPrefix(k, n) ==
    IF k = 0 THEN ZeroProg
    ELSE [SetupStep(SetupPrefix(k - 1, n), k, n) EXCEPT
             !.setupLog = Append(@, [call |-> SetupCalls[k], ok |-> TRUE,
                                     native |-> "none"])]

---------------------------------------------------------------------------
(* VulkanDrawFrame: its control flow and what each native call is given.   *)

\* the statement control reaches after `step` returned with success `ok`
StepAfterWaitIgnored(step, ok) ==
    CASE step = "acquire" -> IF ok THEN "update" ELSE "return"
      [] step = "update" -> "reset"
      [] step = "reset" -> "submit"
      [] step = "submit" -> IF ok THEN "wait" ELSE "return"
      [] step = "wait" -> "present"
      [] OTHER -> "return"

StepAfterAcquireIgnored(step, ok) ==
    CASE step = "acquire" -> "update"
      [] step = "update" -> "reset"
      [] step = "reset" -> "submit"
      [] step = "submit" -> IF ok THEN "wait" ELSE "return"
      [] step = "wait" -> IF ok THEN "present" ELSE "return"
      [] OTHER -> "return"

StepAfter(step, ok) ==
    CASE step = "acquire" -> IF ok THEN "update" ELSE "return"
      [] step = "update" -> "reset"
      [] step = "reset" -> "submit"
      [] step = "submit" -> IF ok THEN "wait" ELSE "return"
      [] step = "wait" -> IF ok THEN "present" ELSE "return"
      [] OTHER -> "return"

\* the memory vk.MapMemory / vk.Memcopy write for the acquired index
UniformMemoryWritten(sw, idx) == sw.uniformBuffer[idx].Memory

\* PCommandBuffers: r.cmdBuffers[nextIdx:] with CommandBufferCount 1
SubmittedCommandBufferFirst(rr, idx) == rr.cmdBuffers[0]

SubmittedCommandBuffer(rr, idx) == rr.cmdBuffers[idx]

\* imageIndices := []uint32{nextIdx}
PresentedImageIndex(idx) == idx

\* buffer objects a pending submission of command buffer c reads
BuffersRead(c) == {descWrites[cmdRecord[c].DescriptorSet]}

\* the uniform buffer object bound to the memory of slot idx
SlotBuffer(idx) == s.uniformBuffer[idx].Buffer

PendingReaders(idx) ==
    {j \in DOMAIN queue : SlotBuffer(idx) \in BuffersRead(queue[j].cmd)}

\* one native call of the frame: log it and move on as the code does
Advance(step, ok, idx, obj) ==
    LET nx == StepAfter(step, ok) IN
    /\ frameLog' = Append(frameLog, [step |-> step, ok |-> ok, idx |-> idx,
                                     obj |-> obj])
    /\ pc' = IF nx = "return" THEN "select" ELSE nx
    /\ ret' = IF nx = "return" THEN ok ELSE ret
    /\ skipped' = IF ~ok /\ step \in {"acquire", "submit", "wait"}
                  THEN skipped + 1 ELSE skipped

---------------------------------------------------------------------------
(* The initial state: main has run its setup calls with success.           *)

LoopInit(P, n) ==
    /\ v = P.v /\ s = P.s /\ r = P.r /\ vb = P.vb /\ ib = P.ib /\ gfx = P.gfx
    /\ created = P.created /\ cmdRecord = P.cmdRecord /\ descWrites = P.descWrites
    /\ exitC = 0 /\ doneC = 0 /\ shouldClose = FALSE
    /\ ticks = 0 /\ drawCalls = 0 /\ presentCalls = 0 /\ skipped = 0
    /\ teardowns = 0 /\ nextIdx = 0 /\ frameLog = <<>> /\ ret = FALSE
    /\ images = [i \in 0..(n - 1) |-> "free"]
    /\ queue = <<>> /\ fenceSignaled = FALSE /\ semSignals = 0
    /\ tdQueue = <<>> /\ destroyLog = <<>>
    /\ setupLog = P.setupLog

Init ==
    \E n \in 1..MaxImages :
        /\ LoopInit(SetupPrefix(Len(SetupCalls), n), n)
        /\ callIn = NoCall /\ callOut = NoCall
        /\ pc = "select"

---------------------------------------------------------------------------
(* main's select loop.                                                     *)

\* case <-fpsTicker.C
TickerCase ==
    /\ pc = "select"
    /\ shouldClose \/ drawCalls < MaxFrames
    /\ pc' = "tick"
    /\ ticks' = IF shouldClose THEN ticks ELSE ticks + 1
    /\ UNCHANGED <<setupVars, progVars, gpuVars, exitC, doneC, shouldClose, drawCalls,
                   presentCalls, skipped, teardowns, nextIdx, frameLog, ret,
                   tdQueue, destroyLog>>

\* if window.ShouldClose() { exitC <- struct{}{}; continue }
ExitRequest ==
    /\ pc = "tick"
    /\ shouldClose
    /\ exitC < ChanCap
    /\ exitC' = exitC + 1
    /\ pc' = "select"
    /\ UNCHANGED <<setupVars, progVars, gpuVars, doneC, shouldClose, ticks, drawCalls,
                   presentCalls, skipped, teardowns, nextIdx, frameLog, ret,
                   tdQueue, destroyLog>>

\* (variant: the frame is drawn without looking at window.ShouldClose())
PollEventsWhenClosing ==
    /\ pc = "tick"
    /\ \E close \in BOOLEAN : shouldClose' = (shouldClose \/ close)
    /\ pc' = "acquire"
    /\ drawCalls' = drawCalls + 1
    /\ nextIdx' = 0
    /\ frameLog' = <<>>
    /\ UNCHANGED <<setupVars, progVars, gpuVars, exitC, doneC, ticks, presentCalls,
                   skipped, teardowns, ret, tdQueue, destroyLog>>

\* glfw.PollEvents() (which may see the close request), then the call of
\* VulkanDrawFrame
PollEvents ==
    /\ pc = "tick"
    /\ ~shouldClose
    /\ \E close \in BOOLEAN : shouldClose' = close
    /\ pc' = "acquire"
    /\ drawCalls' = drawCalls + 1
    /\ nextIdx' = 0
    /\ frameLog' = <<>>
    /\ UNCHANGED <<setupVars, progVars, gpuVars, exitC, doneC, ticks, presentCalls,
                   skipped, teardowns, ret, tdQueue, destroyLog>>

---------------------------------------------------------------------------
(* VulkanDrawFrame, one action per native call.                            *)

AcquireNextImage ==
    /\ pc = "acquire"
    /\ \/ \E k \in {i \in DOMAIN images : images[i] = "free"} :
             /\ images' = [images EXCEPT ![k] = "acquired"]
             /\ nextIdx' = k
             /\ semSignals' = semSignals + 1
             /\ Advance("acquire", TRUE, k, Null)
       \/ /\ UNCHANGED <<images, nextIdx, semSignals>>
          /\ Advance("acquire", FALSE, nextIdx, Null)
    /\ UNCHANGED <<setupVars, progVars, queue, fenceSignaled, exitC, doneC, shouldClose,
                   ticks, drawCalls, presentCalls, teardowns, tdQueue, destroyLog>>

\* vk.MapMemory, vk.Memcopy, vk.UnmapMemory on the slot of the acquired index.
\* The result of vk.MapMemory is not looked at: when it fails pData is still
\* nil and vk.Memcopy panics on it, which leaves main through its deferred
\* calls.
UpdateUniform ==
    /\ pc = "update"
    /\ \/ Advance("update", TRUE, nextIdx, UniformMemoryWritten(s, nextIdx))
       \/ /\ frameLog' = Append(frameLog,
                                [step |-> "update", ok |-> FALSE, idx |-> nextIdx,
                                 obj |-> UniformMemoryWritten(s, nextIdx)])
          /\ pc' = "panicked"
          /\ UNCHANGED <<ret, skipped>>
    /\ UNCHANGED <<setupVars, progVars, gpuVars, exitC, doneC, shouldClose, ticks,
                   drawCalls, presentCalls, teardowns, nextIdx, tdQueue,
                   destroyLog>>

\* vk.ResetFences: resetting a fence a pending submission still holds is
\* undefined; the driver may leave that submission attached or drop it
ResetFences ==
    /\ pc = "reset"
    /\ fenceSignaled' = FALSE
    /\ \E keep \in BOOLEAN :
          queue' = [j \in DOMAIN queue |->
                       [queue[j] EXCEPT !.fence = @ /\ keep]]
    /\ Advance("reset", TRUE, nextIdx, r.fences[0])
    /\ UNCHANGED <<setupVars, progVars, images, semSignals, exitC, doneC, shouldClose,
                   ticks, drawCalls, presentCalls, teardowns, nextIdx, tdQueue,
                   destroyLog>>

QueueSubmit ==
    /\ pc = "submit"
    /\ \/ /\ queue' = Append(queue, [cmd |-> SubmittedCommandBuffer(r, nextIdx),
                                     fence |-> TRUE])
          /\ semSignals' = IF semSignals > 0 THEN semSignals - 1 ELSE 0
          /\ Advance("submit", TRUE, nextIdx, SubmittedCommandBuffer(r, nextIdx))
       \/ /\ UNCHANGED <<queue, semSignals>>
          /\ Advance("submit", FALSE, nextIdx, SubmittedCommandBuffer(r, nextIdx))
    /\ UNCHANGED <<setupVars, progVars, images, fenceSignaled, exitC, doneC, shouldClose,
                   ticks, drawCalls, presentCalls, teardowns, nextIdx, tdQueue,
                   destroyLog>>

\* vk.WaitForFences: success once the fence is signaled, else the 10 s
\* timeout or an error
WaitForFences ==
    /\ pc = "wait"
    /\ \/ /\ fenceSignaled
          /\ Advance("wait", TRUE, nextIdx, r.fences[0])
       \/ Advance("wait", FALSE, nextIdx, r.fences[0])
    /\ UNCHANGED <<setupVars, progVars, gpuVars, exitC, doneC, shouldClose, ticks,
                   drawCalls, presentCalls, teardowns, nextIdx, tdQueue,
                   destroyLog>>

\* vk.QueuePresent: on success the image goes back to the presentation
\* engine; a failed present may or may not have released it
QueuePresent ==
    /\ pc = "present"
    /\ presentCalls' = presentCalls + 1
    /\ LET k == PresentedImageIndex(nextIdx) IN
       \/ /\ images' = [images EXCEPT ![k] = "presented"]
          /\ Advance("present", TRUE, k, s.Swapchains[0])
       \/ /\ \E released \in BOOLEAN :
                images' = [images EXCEPT ![k] =
                              IF released THEN "presented" ELSE @]
          /\ Advance("present", FALSE, k, s.Swapchains[0])
    /\ UNCHANGED <<setupVars, progVars, queue, fenceSignaled, semSignals, exitC, doneC,
                   shouldClose, ticks, drawCalls, teardowns, nextIdx, tdQueue,
                   destroyLog>>

---------------------------------------------------------------------------
(* The device: the queue executes submissions in order; the presentation   *)
(* engine hands presented images back.                                     *)

GpuComplete ==
    /\ queue # <<>>
    /\ fenceSignaled' = (fenceSignaled \/ Head(queue).fence)
    /\ queue' = Tail(queue)
    /\ UNCHANGED <<setupVars, progVars, loopVars, pc, teardowns, images, semSignals,
                   tdQueue, destroyLog>>

ImageRelease ==
    /\ \E k \in DOMAIN images :
          /\ images[k] = "presented"
          /\ images' = [images EXCEPT ![k] = "free"]
    /\ UNCHANGED <<setupVars, progVars, loopVars, pc, teardowns, queue, fenceSignaled,
                   semSignals, tdQueue, destroyLog>>

---------------------------------------------------------------------------
(* DestroyInOrder and the Destroy methods it calls, as the list of steps   *)
(* they take on a given program state: native destruction calls, the two   *)
(* slice resets, and the Go run-time panic of an index out of range.       *)

Call(api, dev, hs) == [api |-> api, device |-> dev, handles |-> hs]
GoPanic == Call("panic", Null, {})
Panicked(calls) == calls # <<>> /\ calls[Len(calls)].api = "panic"
Then(a, b) == IF Panicked(a) THEN a ELSE a \o b

\* for i := uint32(0); i < s.DefaultSwapchainLen(); i++ { ... }
RECURSIVE SwapchainDestroyLoop(_, _)
SwapchainDestroyLoop(sw, i) ==
    IF 0 \notin DOMAIN sw.SwapchainLen THEN <<GoPanic>>
    ELSE IF i >= sw.SwapchainLen[0] THEN <<>>
    ELSE IF i \notin DOMAIN sw.Framebuffers THEN <<GoPanic>>
    ELSE IF i \notin DOMAIN sw.DisplayViews
         THEN <<Call("DestroyFramebuffer", sw.Device, {sw.Framebuffers[i]}), GoPanic>>
    ELSE <<Call("DestroyFramebuffer", sw.Device, {sw.Framebuffers[i]}),
           Call("DestroyImageView", sw.Device, {sw.DisplayViews[i]})>>
         \o SwapchainDestroyLoop(sw, i + 1)

SwapchainDestroy(sw) ==
    Then(SwapchainDestroyLoop(sw, 0),
         <<Call("s.Framebuffers = nil", Null, {})>>
         \o [j \in 1..SliceLen(sw.Swapchains) |->
                Call("DestroySwapchain", sw.Device, {sw.Swapchains[j - 1]})])

GfxPipelineDestroy(g) ==
    <<Call("DestroyPipeline", g.device, {g.pipeline}),
      Call("DestroyPipelineCache", g.device, {g.pipelineCache}),
      Call("DestroyPipelineLayout", g.device, {g.pipelineLayout})>>

BufferDestroy(buf) ==
    [j \in 1..SliceLen(buf.buffers) |->
        Call("DestroyBuffer", buf.device, {buf.buffers[j - 1]})]

DestroyInOrder(P) ==
    Then(Then(<<Call("FreeCommandBuffers", P.v.Device, Range(P.r.cmdBuffers)),
                Call("r.cmdBuffers = nil", Null, {}),
                Call("DestroyCommandPool", P.v.Device, {P.r.cmdPool}),
                Call("DestroyRenderPass", P.v.Device, {P.r.RenderPass})>>,
              SwapchainDestroy(P.s)),
         GfxPipelineDestroy(P.gfx)
         \o BufferDestroy(P.vb)
         \o BufferDestroy(P.ib)
         \o <<Call("DestroyDevice", Null, {P.v.Device})>>
         \o (IF P.v.dbg # Null
             THEN <<Call("DestroyDebugReportCallback", Null, {P.v.dbg})>> ELSE <<>>)
         \o <<Call("DestroyInstance", Null, {P.v.Instance})>>)

Prog == [v |-> v, s |-> s, r |-> r, vb |-> vb, ib |-> ib, gfx |-> gfx,
         created |-> created, cmdRecord |-> cmdRecord, descWrites |-> descWrites]

\* case <-exitC: uniform.DestroyInOrder(&v, &s, &r, &vb, &ib, &gfx)
ExitCase ==
    /\ pc = "select"
    /\ exitC > 0
    /\ exitC' = exitC - 1
    /\ pc' = "teardown"
    /\ UNCHANGED <<setupVars, progVars, gpuVars, doneC, shouldClose, ticks, drawCalls,
                   presentCalls, skipped, teardowns, nextIdx, frameLog, ret,
                   tdQueue, destroyLog>>

DestroyInOrderBegin ==
    /\ pc = "teardown"
    /\ teardowns' = teardowns + 1
    /\ tdQueue' = DestroyInOrder(Prog)
    /\ pc' = "destroying"
    /\ UNCHANGED <<setupVars, progVars, gpuVars, loopVars, destroyLog>>

\* the next step of DestroyInOrder
DestroyStep ==
    /\ pc = "destroying"
    /\ tdQueue # <<>>
    /\ LET c == Head(tdQueue) IN
       /\ tdQueue' = Tail(tdQueue)
       /\ pc' = IF c.api = "panic" THEN "panicked" ELSE "destroying"
       /\ r' = IF c.api = "r.cmdBuffers = nil"
               THEN [r EXCEPT !.cmdBuffers = NilSlice] ELSE r
       /\ s' = IF c.api = "s.Framebuffers = nil"
               THEN [s EXCEPT !.Framebuffers = NilSlice, !.DisplayViews = NilSlice]
               ELSE s
       /\ destroyLog' = IF c.api \in {"panic", "r.cmdBuffers = nil",
                                      "s.Framebuffers = nil"}
                        THEN destroyLog ELSE Append(destroyLog, c)
    /\ UNCHANGED <<setupVars, v, vb, ib, gfx, created, cmdRecord, descWrites, gpuVars,
                   loopVars, teardowns>>

\* window.Destroy(); glfw.Terminate(); fpsTicker.Stop(); doneC <- struct{}{};
\* return
ExitReturn ==
    /\ pc = "destroying"
    /\ tdQueue = <<>>
    /\ doneC < ChanCap
    /\ doneC' = doneC + 1
    /\ pc' = "returned"
    /\ UNCHANGED <<setupVars, progVars, gpuVars, exitC, shouldClose, ticks, drawCalls,
                   presentCalls, skipped, teardowns, nextIdx, frameLog, ret,
                   tdQueue, destroyLog>>

\* `defer closer.Bind(func() {...})` has been executed: every setup call
\* before VulkanInit has returned without error
HandlerDeferred ==
    /\ Len(setupLog) >= Len(SetupCalls) - 1
    /\ \A k \in 1..(Len(SetupCalls) - 1) : setupLog[k].ok

\* main is left, by its return or by a panic: the deferred closer.Bind
\* registers the handler and the deferred closer.Close() runs it.
\* The handler: exitC <- struct{}{}
HandlerSend ==
    /\ pc = "returned" \/ (pc = "panicked" /\ HandlerDeferred)
    /\ exitC < ChanCap
    /\ exitC' = exitC + 1
    /\ pc' = "handler_wait"
    /\ UNCHANGED <<setupVars, progVars, gpuVars, doneC, shouldClose, ticks, drawCalls,
                   presentCalls, skipped, teardowns, nextIdx, frameLog, ret,
                   tdQueue, destroyLog>>

\* the deferred handler: <-doneC, then the process exits
HandlerReceive ==
    /\ pc = "handler_wait"
    /\ doneC > 0
    /\ doneC' = doneC - 1
    /\ pc' = "exited"
    /\ UNCHANGED <<setupVars, progVars, gpuVars, exitC, shouldClose, ticks, drawCalls,
                   presentCalls, skipped, teardowns, nextIdx, frameLog, ret,
                   tdQueue, destroyLog>>

---------------------------------------------------------------------------
(* The specifications.                                                     *)

Next ==
    \/ TickerCase \/ ExitRequest \/ PollEvents
    \/ AcquireNextImage \/ UpdateUniform \/ ResetFences \/ QueueSubmit
    \/ WaitForFences \/ QueuePresent
    \/ GpuComplete \/ ImageRelease
    \/ ExitCase \/ DestroyInOrderBegin \/ DestroyStep \/ ExitReturn
    \/ HandlerSend \/ HandlerReceive

Spec == Init /\ [][Next]_vars

\* main from its first setup call on.  A setup call that returns an error
\* goes to orPanic; VulkanInit returns nothing, and a failure inside it is
\* only logged.
SetupCall ==
    /\ pc = "setup"
    /\ LET k == Len(setupLog) + 1
           n == SliceLen(images)
           last == k = Len(SetupCalls)
           entry(ok, x) == [call |-> SetupCalls[k], ok |-> ok, native |-> x]
           become(P) ==
              /\ v' = P.v /\ s' = P.s /\ r' = P.r /\ vb' = P.vb /\ ib' = P.ib
              /\ gfx' = P.gfx /\ created' = P.created
              /\ cmdRecord' = P.cmdRecord /\ descWrites' = P.descWrites
       IN
       \/ /\ become(SetupStep(Prog, k, n))
          /\ setupLog' = Append(setupLog, entry(TRUE, "none"))
          /\ pc' = IF last THEN "select" ELSE "setup"
       \/ /\ ~last
          /\ setupLog' = Append(setupLog, entry(FALSE, SetupCalls[k]))
          /\ pc' = "panicked"
          /\ UNCHANGED progVars
       \/ /\ last
          /\ \E x \in VulkanInitChecked :
                /\ become(VulkanInitFailing(Prog, x))
                /\ setupLog' = Append(setupLog, entry(FALSE, x))
          /\ pc' = "select"
    /\ UNCHANGED <<loopVars, gpuVars, teardowns, tdQueue, destroyLog, callIn,
                   callOut>>

MainInit ==
    \E n \in 1..MaxImages :
        /\ LoopInit(ZeroProg, n)
        /\ callIn = NoCall /\ callOut = NoCall
        /\ pc = "setup"

MainNext == SetupCall \/ Next

MainSpec == MainInit /\ [][MainNext]_vars

\* DestroyInOrder run on the program state left by a setup that stopped
\* after any number of its calls
TeardownInit ==
    \E n \in 1..MaxImages : \E k \in 0..Len(SetupCalls) :
        /\ LoopInit(SetupPrefix(k, n), n)
        /\ callIn = NoCall /\ callOut = NoCall
        /\ pc = "teardown"

TeardownNext == DestroyInOrderBegin \/ DestroyStep

TeardownSpec == TeardownInit /\ [][TeardownNext]_vars

---------------------------------------------------------------------------
(* Single library calls, each as a function of its inputs: the data it is  *)
(* given, what the adapter reports, and the native call that fails (or     *)
(* "none").  The result holds the native calls made, in order, and what    *)
(* the function returned.                                                  *)

\* surface formats an adapter may report
MaxFormats == 3
Formats == {"B8G8R8A8_UNORM", "R8G8B8A8_UNORM", "B8G8R8A8_SRGB", "R5G6B5_UNORM"}

\* formats[i].Format == vk.FormatB8g8r8a8Unorm || ... == vk.FormatR8g8b8a8Unorm
AcceptedFormats == {"B8G8R8A8_UNORM", "R8G8B8A8_UNORM"}

MinOf(S) == CHOOSE x \in S : \A y \in S : x <= y
MaxOf(S) == CHOOSE x \in S : \A y \in S : x >= y

\* (variant: the first reported format, whatever it is)
ChooseFormatFirst(formats) ==
    IF DOMAIN formats = {} THEN -1 ELSE 0

\* (variant: the last accepted format of the list)
ChooseFormatLast(formats) ==
    LET hits == {i \in DOMAIN formats : formats[i] \in AcceptedFormats} IN
    IF hits = {} THEN -1 ELSE MaxOf(hits)

\* chosenFormat := -1; for i := 0; i < int(formatCount); i++ { if ... { chosenFormat = i; break } }
ChooseFormat(formats) ==
    LET hits == {i \in DOMAIN formats : formats[i] \in AcceptedFormats} IN
    IF hits = {} THEN -1 ELSE MinOf(hits)

\* the native calls of CreateSwapchain that are checked, in order; the
\* format selection stands between the second and the third
SwapchainChecked ==
    <<"vk.CreateDescriptorSetLayout", "vk.GetPhysicalDeviceSurfaceCapabilities",
      "vk.CreateSwapchain", "vk.GetSwapchainImages", "CreateUniformBuffers">>

Result(calls, err, val) == [calls |-> calls, err |-> err, val |-> val]

\* VulkanDeviceInfo.CreateSwapchain(): in.formats is the reported list,
\* in.images the image count of the swapchain, in.fail the failing call
CreateSwapchainCall(in) ==
    LET chosen == ChooseFormat(in.formats)
        s0 == [DescLayout |-> "created", DisplayFormat |-> "none",
               Swapchains |-> 0, SwapchainLen |-> 0, uniformBuffer |-> 0]
        c1 == <<"vk.CreateDescriptorSetLayout">>
        c2 == c1 \o <<"vk.GetPhysicalDeviceSurfaceCapabilities">>
        c3 == c2 \o <<"vk.GetPhysicalDeviceSurfaceFormats",
                      "vk.GetPhysicalDeviceSurfaceFormats">>
        c4 == c3 \o <<"vk.CreateSwapchain">>
        c5 == c4 \o <<"vk.GetSwapchainImages">>
        s4 == [s0 EXCEPT !.DisplayFormat = in.formats[chosen], !.Swapchains = 1]
        s5 == [s4 EXCEPT !.SwapchainLen = in.images]
    IN
    IF in.fail = "vk.CreateDescriptorSetLayout"
    THEN Result(c1, "vk.CreateDescriptorSetLayout failed", [s0 EXCEPT !.DescLayout = "null"])
    ELSE IF in.fail = "vk.GetPhysicalDeviceSurfaceCapabilities"
    THEN Result(c2, "vk.GetPhysicalDeviceSurfaceCapabilities failed", s0)
    ELSE IF chosen < 0
    THEN Result(c3, "vk.GetPhysicalDeviceSurfaceFormats not found suitable format", s0)
    ELSE IF in.fail = "vk.CreateSwapchain"
    THEN Result(c4, "vk.CreateSwapchain failed", s4)
    ELSE IF in.fail = "vk.GetSwapchainImages"
    THEN Result(c5, "vk.GetSwapchainImages failed", s4)
    ELSE IF in.fail = "CreateUniformBuffers"
    THEN Result(c5 \o <<"CreateUniformBuffers">>, "panic",
                [s5 EXCEPT !.uniformBuffer = in.images])
    ELSE Result(c5 \o [i \in 1..in.images |-> "CreateUniformBuffers"], "nil",
                [s5 EXCEPT !.uniformBuffer = in.images])

FormatLists ==
    UNION {[0..(n - 1) -> Formats] : n \in 0..MaxFormats}

SwapchainInputs ==
    {[fn |-> "CreateSwapchain", formats |-> f, images |-> n, fail |-> x] :
        f \in FormatLists, n \in 1..MaxImages,
        x \in {"none"} \cup Range(SwapchainChecked)}

\* physical devices vk.EnumeratePhysicalDevices may report
MaxGpus == 2

\* the bootstrap steps of NewVulkanDevice, in order
BootstrapSteps ==
    <<"vk.CreateInstance", "createSurfaceFunc", "vk.EnumeratePhysicalDevices",
      "vk.CreateDevice">>

\* a native call made, and whether it succeeded
Did(api, ok) == [api |-> api, ok |-> ok]

\* vk.DestroySurface(v.Instance, v.Surface, nil); vk.DestroyInstance(v.Instance, nil)
Unwind == <<Did("vk.DestroySurface", TRUE), Did("vk.DestroyInstance", TRUE)>>

\* the call that creates, and the call that destroys, each bootstrap object
Creator ==
    [Instance |-> "vk.CreateInstance", Surface |-> "createSurfaceFunc",
     Device |-> "vk.CreateDevice"]
Destroyer ==
    [Instance |-> "vk.DestroyInstance", Surface |-> "vk.DestroySurface",
     Device |-> "vk.DestroyDevice"]

\* what is alive after the calls: objects created and not destroyed
LiveAfter(calls) ==
    {o \in DOMAIN Creator :
        /\ \E i \in DOMAIN calls : calls[i] = Did(Creator[o], TRUE)
        /\ ~\E i \in DOMAIN calls : calls[i].api = Destroyer[o]}

\* NewVulkanDevice: in.fail is the failing step, in.gpus the number of
\* adapters reported, in.surfacePanics whether the callback panics on a
\* failure (as main's does, through orPanic) or returns 0.  The err tested
\* after the callback is the one vk.CreateInstance left, which is nil there,
\* so that test never fires.
NewVulkanDeviceCall(in) ==
    LET surfaceOk == in.fail # "createSurfaceFunc"
        c1 == <<Did("vk.CreateInstance", TRUE)>>
        c2 == c1 \o <<Did("createSurfaceFunc", surfaceOk)>>
        c3(ok) == c2 \o <<Did("vk.EnumeratePhysicalDevices", ok)>>
        c4(ok) == c3(TRUE) \o <<Did("vk.CreateDevice", ok)>>
        done == c4(TRUE) \o <<Did("vk.GetDeviceQueue", TRUE)>>
    IN
    IF in.fail = "vk.CreateInstance"
    THEN Result(<<Did("vk.CreateInstance", FALSE)>>, "vk.CreateInstance failed", {})
    ELSE IF ~surfaceOk /\ in.surfacePanics
    THEN Result(c2, "panic", LiveAfter(c2))
    ELSE IF in.fail = "vk.EnumeratePhysicalDevices"
    THEN Result(c3(FALSE) \o Unwind, "vk.EnumeratePhysicalDevices failed",
                LiveAfter(c3(FALSE) \o Unwind))
    ELSE IF in.gpus = 0
    THEN Result(c3(TRUE) \o Unwind, "getPhysicalDevice: no GPUs found on the system",
                LiveAfter(c3(TRUE) \o Unwind))
    ELSE IF in.fail = "vk.CreateDevice"
    THEN Result(c4(FALSE) \o Unwind, "vk.CreateDevice failed",
                LiveAfter(c4(FALSE) \o Unwind))
    ELSE Result(done, "nil", LiveAfter(done))

DeviceInputs ==
    {[fn |-> "NewVulkanDevice", fail |-> x, gpus |-> g, surfacePanics |-> b] :
        x \in {"none"} \cup Range(BootstrapSteps), g \in 0..MaxGpus,
        b \in BOOLEAN}

\* textures handed to the texture variant of the renderer
MaxTextures == 2

\* (variant: one sampler descriptor per image, whatever the texture count)
SamplerDescriptorsPerImage(n, tx) == n

\* DescriptorCount: uint32(s.SwapchainLen[0]) * uint32(len(textures)); the
\* counts studied are far from the 32-bit range
SamplerDescriptors(n, tx) == n * tx

\* PoolSizeCount / BindingCount / setCount: 1, plus 1 when len(textures) > 0
CountWithTextures(tx) == IF tx > 0 THEN 2 ELSE 1

\* the vk.DescriptorPoolCreateInfo of CreateDescriptorPool: only the first
\* PoolSizeCount entries of PPoolSizes are read
DescriptorPoolInfo(n, tx) ==
    [MaxSets |-> n,
     PoolSizes |-> SubSeq(<<[Type |-> "UniformBuffer", DescriptorCount |-> n],
                            [Type |-> "CombinedImageSampler",
                             DescriptorCount |-> SamplerDescriptors(n, tx)]>>,
                          1, CountWithTextures(tx))]

\* the bindings of the layout made in CreateSwapchain: only the first
\* BindingCount entries of PBindings are read
LayoutBindings(tx) ==
    SubSeq(<<[Binding |-> 0, Type |-> "UniformBuffer", DescriptorCount |-> 1],
             [Binding |-> 1, Type |-> "CombinedImageSampler",
              DescriptorCount |-> tx]>>,
           1, CountWithTextures(tx))

DescriptorTypes == {"UniformBuffer", "CombinedImageSampler"}

\* descriptors of type ty a pool has room for / a set of the layout takes
PoolCapacity(pool, ty) ==
    LET hits == {i \in DOMAIN pool.PoolSizes : pool.PoolSizes[i].Type = ty} IN
    IF hits = {} THEN 0 ELSE pool.PoolSizes[MinOf(hits)].DescriptorCount
SetNeeds(layout, ty) ==
    LET hits == {i \in DOMAIN layout : layout[i].Type = ty} IN
    IF hits = {} THEN 0 ELSE layout[MinOf(hits)].DescriptorCount

\* vk.AllocateDescriptorSets of one set of the layout from the pool, of
\* which `sets` sets are taken: does the pool have room for it
PoolHasRoom(pool, layout, sets) ==
    /\ sets + 1 <= pool.MaxSets
    /\ \A ty \in DescriptorTypes :
          (sets + 1) * SetNeeds(layout, ty) <= PoolCapacity(pool, ty)

\* for i := uint32(0); i < s.SwapchainLen[0]; i++ { vk.AllocateDescriptorSets ... }
RECURSIVE AllocateSets(_, _, _, _)
AllocateSets(pool, layout, i, n) ==
    IF i >= n THEN [sets |-> i, err |-> "nil"]
    ELSE IF ~PoolHasRoom(pool, layout, i)
    THEN [sets |-> i, err |-> "vk.AllocateDescriptorSets failed"]
    ELSE AllocateSets(pool, layout, i + 1, n)

\* the descriptor setup of the texture variant: the layout of
\* CreateSwapchain, CreateDescriptorPool, CreateDescriptorSet, for
\* in.images swapchain images and in.textures textures
CreateDescriptorsCall(in) ==
    LET layout == LayoutBindings(in.textures)
        pool == DescriptorPoolInfo(in.images, in.textures)
        alloc == AllocateSets(pool, layout, 0, in.images)
    IN
    IF in.fail = "vk.CreateDescriptorPool"
    THEN Result(<<"vk.CreateDescriptorPool">>, "vk.CreateDescriptorPool failed",
                [layout |-> layout, pool |-> pool, sets |-> 0])
    ELSE Result(<<"vk.CreateDescriptorPool">>
                   \o [i \in 1..alloc.sets |-> "vk.AllocateDescriptorSets"],
                alloc.err, [layout |-> layout, pool |-> pool, sets |-> alloc.sets])

DescriptorInputs ==
    {[fn |-> "CreateDescriptors", images |-> n, textures |-> tx, fail |-> x] :
        n \in 1..MaxImages, tx \in 0..MaxTextures,
        x \in {"none", "vk.CreateDescriptorPool"}}

\* longest byte slice uploaded, and the byte values used
MaxBytes == 2
Bytes == {17, 34}

\* (variant: the memory is bound before it is mapped and written)
UploadStepsBindFirst ==
    <<"vk.CreateBuffer", "vk.GetBufferMemoryRequirements",
      "vk.FindMemoryTypeIndex", "vk.AllocateMemory", "vk.BindBufferMemory",
      "vk.MapMemory", "vk.Memcopy", "vk.UnmapMemory">>

\* (variant: the memory is left mapped)
UploadStepsNoUnmap ==
    <<"vk.CreateBuffer", "vk.GetBufferMemoryRequirements",
      "vk.FindMemoryTypeIndex", "vk.AllocateMemory", "vk.MapMemory",
      "vk.Memcopy", "vk.BindBufferMemory">>

\* the native calls of CreateVertexBuffers, CreateIndexBuffers and
\* CreateUniformBuffers, in the order of the code
UploadSteps ==
    <<"vk.CreateBuffer", "vk.GetBufferMemoryRequirements",
      "vk.FindMemoryTypeIndex", "vk.AllocateMemory", "vk.MapMemory",
      "vk.Memcopy", "vk.UnmapMemory", "vk.BindBufferMemory">>

\* the calls whose error is tested and returned
UploadChecked == {"vk.CreateBuffer", "vk.AllocateMemory", "vk.BindBufferMemory"}

\* (variant: the last byte is not copied)
MemcopyAllButLast(mem, src) ==
    [mem |-> [i \in DOMAIN mem |->
                 IF i \in DOMAIN src /\ i + 1 \in DOMAIN src THEN src[i] ELSE mem[i]],
     n |-> SliceLen(src)]

\* vk.Memcopy(dst, src): copy(dstView[:len(src)], src), len(src) bytes from
\* the start of the mapping, and their number
Memcopy(mem, src) ==
    [mem |-> [i \in DOMAIN mem |-> IF i \in DOMAIN src THEN src[i] ELSE mem[i]],
     n |-> SliceLen(src)]

\* the Usage of the BufferCreateInfo each function fills in
BufferUsage(kind) ==
    IF kind = "uniform" THEN "BufferUsageUniformBufferBit"
    ELSE "BufferUsageVertexBufferBit"

\* the state of an upload before its first call
UploadStart ==
    [calls |-> <<>>, err |-> "running", mem |-> NilSlice, ptr |-> "nil",
     copied |-> 0, warned |-> FALSE, bound |-> FALSE]

\* one call of the upload on state st; in.size is the size the buffer is
\* created and mapped with, in.cap the size of the allocation
\* (memReq.Size), in.fail the failing call, in.overrun what a copy past the
\* end of the mapped range does
UploadStep(in, st, step) ==
    LET st1 == [st EXCEPT !.calls = Append(@, step)]
        failed == in.fail = step
    IN
    IF failed /\ step \in UploadChecked
    THEN [st1 EXCEPT !.err = step \o " failed"]
    ELSE IF step = "vk.AllocateMemory"
    THEN [st1 EXCEPT !.mem = MakeSlice(in.cap, 0)]
    ELSE IF step = "vk.MapMemory"
    THEN [st1 EXCEPT !.ptr = IF failed THEN "nil" ELSE "mapped"]
    ELSE IF step = "vk.Memcopy"
    THEN IF st.ptr # "mapped" THEN [st1 EXCEPT !.err = "panic"]
         ELSE IF SliceLen(in.data) > in.size
                 /\ (in.overrun = "crash" \/ SliceLen(in.data) > in.cap)
         THEN [st1 EXCEPT !.err = "panic"]
         ELSE [st1 EXCEPT !.mem = Memcopy(st.mem, in.data).mem,
                          !.copied = Memcopy(st.mem, in.data).n,
                          !.warned = Memcopy(st.mem, in.data).n # in.size]
    ELSE IF step = "vk.UnmapMemory"
    THEN [st1 EXCEPT !.ptr = "unmapped"]
    ELSE IF step = "vk.BindBufferMemory"
    THEN [st1 EXCEPT !.bound = TRUE]
    ELSE st1

RECURSIVE RunUpload(_, _, _)
RunUpload(in, st, k) ==
    IF st.err # "running" THEN st
    ELSE IF k > Len(UploadSteps) THEN [st EXCEPT !.err = "nil"]
    ELSE RunUpload(in, UploadStep(in, st, UploadSteps[k]), k + 1)

\* CreateVertexBuffers / CreateIndexBuffers / CreateUniformBuffers
BufferUploadCall(in) ==
    LET st == RunUpload(in, UploadStart, 1) IN
    Result(st.calls, st.err,
           [mem |-> st.mem, ptr |-> st.ptr, copied |-> st.copied,
            warned |-> st.warned, bound |-> st.bound,
            usage |-> IF st.err = "vk.CreateBuffer failed" THEN "none"
                      ELSE BufferUsage(in.kind)])

ByteSlices == UNION {[0..(n - 1) -> Bytes] : n \in 1..MaxBytes}

\* CreateUniformBuffers sizes the buffer by len(dataRaw); the other two
\* take the size as a parameter of its own
UploadInputs ==
    {[fn |-> "BufferUpload", kind |-> kd, data |-> d, size |-> sz,
      cap |-> sz + slack, fail |-> x, overrun |-> o] :
        kd \in {"vertex", "index", "uniform"}, d \in ByteSlices,
        sz \in 1..MaxBytes, slack \in 0..1,
        x \in {"none"} \cup (Range(UploadSteps)
                                \ {"vk.GetBufferMemoryRequirements",
                                   "vk.FindMemoryTypeIndex", "vk.Memcopy",
                                   "vk.UnmapMemory"}),
        o \in {"written", "crash"}}
    \ {in \in [fn : {"BufferUpload"}, kind : {"uniform"}, data : ByteSlices,
                size : 1..MaxBytes, cap : 1..(MaxBytes + 1),
                fail : {"none"} \cup Range(UploadSteps),
                overrun : {"written", "crash"}] : in.size # SliceLen(in.data)}

\* a call made on an object, and whether it succeeded
Made(api, obj, ok) == [api |-> api, obj |-> obj, ok |-> ok]

\* the two shaders of the pipeline, in loading order
Shaders == <<"shaders/tri-vert.spv", "shaders/tri-frag.spv">>

\* LoadShader(device, name): Asset(name), then vk.CreateShaderModule
LoadShader(name, fail) ==
    IF fail = [api |-> "Asset", obj |-> name]
    THEN [calls |-> <<Made("Asset", name, FALSE)>>, err |-> "asset not found"]
    ELSE IF fail = [api |-> "vk.CreateShaderModule", obj |-> name]
    THEN [calls |-> <<Made("Asset", name, TRUE),
                      Made("vk.CreateShaderModule", name, FALSE)>>,
          err |-> "vk.CreateShaderModule failed"]
    ELSE [calls |-> <<Made("Asset", name, TRUE),
                      Made("vk.CreateShaderModule", name, TRUE)>>,
          err |-> "nil"]

\* (variant: only the shader module deferred last is destroyed)
DeferredDestroysLastOnly(deferred) ==
    IF deferred = <<>> THEN <<>>
    ELSE <<Made("vk.DestroyShaderModule", deferred[Len(deferred)], TRUE)>>

\* the deferred vk.DestroyShaderModule calls run when the function is left,
\* last deferred first
DeferredDestroys(deferred) ==
    [i \in 1..Len(deferred) |->
        Made("vk.DestroyShaderModule", deferred[Len(deferred) + 1 - i], TRUE)]

\* CreateGraphicsPipeline(device, displaySize, renderPass, descLayout);
\* in.fail names the failing call
CreateGraphicsPipelineCall(in) ==
    LET layoutOk == in.fail.api # "vk.CreatePipelineLayout"
        c1 == <<Made("vk.CreatePipelineLayout", "pipelineLayout", layoutOk)>>
        g1 == [ZeroGfx EXCEPT !.pipelineLayout = H("PipelineLayout", 0)]
        vert == LoadShader(Shaders[1], in.fail)
        c2 == c1 \o vert.calls
        frag == LoadShader(Shaders[2], in.fail)
        c3 == c2 \o frag.calls
        cacheOk == in.fail.api # "vk.CreatePipelineCache"
        c4 == c3 \o <<Made("vk.CreatePipelineCache", "pipelineCache", cacheOk)>>
        g4 == [g1 EXCEPT !.pipelineCache = H("PipelineCache", 0)]
        pipeOk == in.fail.api # "vk.CreateGraphicsPipelines"
        c5 == c4 \o <<Made("vk.CreateGraphicsPipelines", "pipeline", pipeOk)>>
        g5 == [g4 EXCEPT !.pipeline = H("Pipeline", 0), !.device = H("Device", 0)]
    IN
    IF ~layoutOk
    THEN Result(c1, "vk.CreatePipelineLayout failed", ZeroGfx)
    ELSE IF vert.err # "nil"
    THEN Result(c2, vert.err, g1)
    ELSE IF frag.err # "nil"
    THEN Result(c3 \o DeferredDestroys(<<Shaders[1]>>), frag.err, g1)
    ELSE IF ~cacheOk
    THEN Result(c4 \o DeferredDestroys(Shaders), "vk.CreatePipelineCache failed", g1)
    ELSE IF ~pipeOk
    THEN Result(c5 \o DeferredDestroys(Shaders),
                "vk.CreateGraphicsPipelines failed", g4)
    ELSE Result(c5 \o DeferredDestroys(Shaders), "nil", g5)

PipelineFailures ==
    {[api |-> "none", obj |-> "none"],
     [api |-> "vk.CreatePipelineLayout", obj |-> "pipelineLayout"],
     [api |-> "vk.CreatePipelineCache", obj |-> "pipelineCache"],
     [api |-> "vk.CreateGraphicsPipelines", obj |-> "pipeline"]}
    \cup [api : {"Asset", "vk.CreateShaderModule"}, obj : Range(Shaders)]

PipelineInputs ==
    {[fn |-> "CreateGraphicsPipeline", fail |-> x] : x \in PipelineFailures}

\* largest swapchain length handed to the renderer's Destroy
MaxSets == 3

\* a native call given `count` elements of a per-image array from element
\* `first` on
OnElements(api, first, count) == [api |-> api, first |-> first, count |-> count]

\* the body of the loop of the renderer's VulkanSwapchainInfo.Destroy for
\* image i; vk.FreeDescriptorSets is given the count i and &s.DescriptorSet[i]
RendererDestroyImage(i) ==
    <<OnElements("vk.DestroyBuffer", i, 1), OnElements("vk.FreeMemory", i, 1),
      OnElements("vk.DestroyFramebuffer", i, 1),
      OnElements("vk.DestroyImageView", i, 1),
      OnElements("vk.FreeDescriptorSets", i, i)>>

RECURSIVE RendererDestroyLoop(_, _)
RendererDestroyLoop(i, n) ==
    IF i >= n THEN <<>>
    ELSE RendererDestroyImage(i) \o RendererDestroyLoop(i + 1, n)

\* the renderer's VulkanSwapchainInfo.Destroy on a swapchain of in.images
\* images
RendererDestroyCall(in) ==
    Result(RendererDestroyLoop(0, in.images)
              \o <<OnElements("vk.DestroyDescriptorSetLayout", 0, 1),
                    OnElements("vk.DestroyDescriptorPool", 0, 1),
                    OnElements("vk.DestroySwapchain", 0, 1)>>,
           "nil",
           [Framebuffers |-> NilSlice, DisplayViews |-> NilSlice])

RendererDestroyInputs ==
    {[fn |-> "RendererDestroy", images |-> n] : n \in 1..MaxSets}

\* tex := &Texture{texWidth, texHeight, imageLayout}: the handle fields
ZeroTexture == [sampler |-> Null, image |-> Null, mem |-> Null, view |-> Null]

\* the native calls of CreateTexture that can fail, in order; the result of
\* the first three goes to util.OrPanic, as does that of vk.CreateSampler
TextureSteps ==
    <<"jpeg.Decode", "vk.CreateImage", "vk.AllocateMemory", "vk.BindImageMemory",
      "vk.MapMemory", "vk.CreateSampler", "vk.CreateImageView">>

\* VulkanDeviceInfo.CreateTexture(rawData): in.fail is the failing call,
\* in.pixels the length of the decoded data.  The view handle is left in
\* the local `view`; tex.view is assigned nowhere.
CreateTextureCall(in) ==
    LET ok(x) == in.fail # x
        c1 == <<Did("jpeg.Decode", ok("jpeg.Decode"))>>
        c2 == c1 \o <<Did("vk.CreateImage", ok("vk.CreateImage"))>>
        t2 == [ZeroTexture EXCEPT !.image = H("TextureImage", 0)]
        c3 == c2 \o <<Did("vk.AllocateMemory", ok("vk.AllocateMemory"))>>
        t3 == [t2 EXCEPT !.mem = H("TextureMemory", 0)]
        c4 == c3 \o <<Did("vk.BindImageMemory", ok("vk.BindImageMemory"))>>
        mapped == in.pixels > 0
        c5 == c4 \o (IF mapped THEN <<Did("vk.MapMemory", ok("vk.MapMemory"))>>
                      ELSE <<>>)
        c6 == c5 \o (IF mapped
                      THEN <<Did("vk.Memcopy", TRUE), Did("vk.UnmapMemory", TRUE)>>
                      ELSE <<>>)
        c7 == c6 \o <<Did("vk.CreateSampler", ok("vk.CreateSampler"))>>
        t7 == [t3 EXCEPT !.sampler = H("Sampler", 0)]
        c8 == c7 \o <<Did("vk.CreateImageView", ok("vk.CreateImageView"))>>
    IN
    IF ~ok("jpeg.Decode") THEN Result(c1, "panic", ZeroTexture)
    ELSE IF ~ok("vk.CreateImage") THEN Result(c2, "panic", ZeroTexture)
    ELSE IF ~ok("vk.AllocateMemory") THEN Result(c3, "panic", t2)
    ELSE IF ~ok("vk.BindImageMemory") THEN Result(c4, "panic", t3)
    ELSE IF mapped /\ ~ok("vk.MapMemory") THEN Result(c5, "nil", t3)
    ELSE IF ~ok("vk.CreateSampler") THEN Result(c7, "panic", t3)
    ELSE Result(c8, "nil", t7)

TextureInputs ==
    {[fn |-> "CreateTexture", fail |-> x, pixels |-> n] :
        x \in {"none"} \cup Range(TextureSteps), n \in 0..1}

\* the calls studied and their inputs
CallInputs ==
    SwapchainInputs \cup DeviceInputs \cup DescriptorInputs \cup UploadInputs
    \cup PipelineInputs \cup RendererDestroyInputs \cup TextureInputs

CallCreateSwapchain ==
    /\ pc = "call"
    /\ callIn.fn = "CreateSwapchain"
    /\ callOut' = CreateSwapchainCall(callIn)
    /\ pc' = "called"
    /\ UNCHANGED <<progVars, loopVars, gpuVars, teardowns, tdQueue, destroyLog,
                   setupLog, callIn>>

CallNewVulkanDevice ==
    /\ pc = "call"
    /\ callIn.fn = "NewVulkanDevice"
    /\ callOut' = NewVulkanDeviceCall(callIn)
    /\ pc' = "called"
    /\ UNCHANGED <<progVars, loopVars, gpuVars, teardowns, tdQueue, destroyLog,
                   setupLog, callIn>>

CallCreateDescriptors ==
    /\ pc = "call"
    /\ callIn.fn = "CreateDescriptors"
    /\ callOut' = CreateDescriptorsCall(callIn)
    /\ pc' = "called"
    /\ UNCHANGED <<progVars, loopVars, gpuVars, teardowns, tdQueue, destroyLog,
                   setupLog, callIn>>

CallBufferUpload ==
    /\ pc = "call"
    /\ callIn.fn = "BufferUpload"
    /\ callOut' = BufferUploadCall(callIn)
    /\ pc' = "called"
    /\ UNCHANGED <<progVars, loopVars, gpuVars, teardowns, tdQueue, destroyLog,
                   setupLog, callIn>>

CallCreateGraphicsPipeline ==
    /\ pc = "call"
    /\ callIn.fn = "CreateGraphicsPipeline"
    /\ callOut' = CreateGraphicsPipelineCall(callIn)
    /\ pc' = "called"
    /\ UNCHANGED <<progVars, loopVars, gpuVars, teardowns, tdQueue, destroyLog,
                   setupLog, callIn>>

CallRendererDestroy ==
    /\ pc = "call"
    /\ callIn.fn = "RendererDestroy"
    /\ callOut' = RendererDestroyCall(callIn)
    /\ pc' = "called"
    /\ UNCHANGED <<progVars, loopVars, gpuVars, teardowns, tdQueue, destroyLog,
                   setupLog, callIn>>

CallCreateTexture ==
    /\ pc = "call"
    /\ callIn.fn = "CreateTexture"
    /\ callOut' = CreateTextureCall(callIn)
    /\ pc' = "called"
    /\ UNCHANGED <<progVars, loopVars, gpuVars, teardowns, tdQueue, destroyLog,
                   setupLog, callIn>>

CallInit ==
    /\ LoopInit(ZeroProg, 1)
    /\ callIn \in CallInputs
    /\ callOut = NoCall
    /\ pc = "call"

CallNext ==
    \/ CallCreateSwapchain \/ CallNewVulkanDevice \/ CallCreateDescriptors
    \/ CallBufferUpload
    \/ CallCreateGraphicsPipeline
    \/ CallRendererDestroy
    \/ CallCreateTexture

CallSpec == CallInit /\ [][CallNext]_vars

---------------------------------------------------------------------------
(* Properties of VulkanDrawFrame.                                          *)

FrameOrder == <<"acquire", "update", "reset", "submit", "wait", "present">>
FrameSteps == {FrameOrder[i] : i \in DOMAIN FrameOrder}
LoopPcs == FrameSteps \cup {"select", "tick"}

C2_NoWriteWhileRead ==
    pc = "update" => PendingReaders(nextIdx) = {}

\* C3: a submit is preceded in the same call by the reset of the fence, and
\* the fence is reset only when no pending submission still holds it.
C3_FenceFreeAtReset ==
    /\ pc = "submit" => \E i \in DOMAIN frameLog : frameLog[i].step = "reset"
    /\ pc = "reset" => \A j \in DOMAIN queue : ~queue[j].fence

\* C4: a failed acquire, submit, fence wait or present is the last call of
\* its frame: VulkanDrawFrame has returned false, nothing panicked, no call
\* was made twice in the frame, and a frame always starts at the acquire.
C4_FailedStepEndsFrame ==
    /\ \A i \in DOMAIN frameLog :
          (/\ ~frameLog[i].ok
           /\ frameLog[i].step \in {"acquire", "submit", "wait", "present"}) =>
             /\ i = Len(frameLog)
             /\ pc \notin FrameSteps
             /\ ret = FALSE
             /\ pc # "panicked"
    /\ \A i, j \in DOMAIN frameLog :
          i # j => frameLog[i].step # frameLog[j].step
    /\ frameLog # <<>> => frameLog[1].step = "acquire"

\* a frame left at a fence wait that timed out, back in the select loop
C4_Witness ==
    /\ pc = "select"
    /\ frameLog # <<>>
    /\ frameLog[Len(frameLog)].step = "wait"
    /\ ~frameLog[Len(frameLog)].ok
    /\ ret = FALSE

\* C5: a frame that acquired index k writes the uniform slot k, submits the
\* command buffer recorded for k and presents image k; and the command
\* buffer recorded for k binds framebuffer k and descriptor set k, which
\* refers to uniform buffer k.
C5_IndexConsistency ==
    pc \in LoopPcs =>
       /\ \A k \in DOMAIN r.cmdBuffers :
             LET rec == cmdRecord[r.cmdBuffers[k]] IN
             /\ rec.Framebuffer = s.Framebuffers[k]
             /\ rec.DescriptorSet = s.descriptorSet[k]
             /\ descWrites[rec.DescriptorSet] = s.uniformBuffer[k].Buffer
       /\ (frameLog # <<>> /\ frameLog[1].ok) =>
             LET k == frameLog[1].idx IN
             /\ k \in 0..(s.SwapchainLen[0] - 1)
             /\ \A i \in DOMAIN frameLog :
                   /\ frameLog[i].step = "update" =>
                         frameLog[i].obj = s.uniformBuffer[k].Memory
                   /\ frameLog[i].step = "submit" =>
                         frameLog[i].obj = r.cmdBuffers[k]
                   /\ frameLog[i].step = "present" => frameLog[i].idx = k

\* a frame that acquired an index other than 0 and presented it
C5_Witness ==
    /\ Len(frameLog) = Len(FrameOrder)
    /\ frameLog[1].idx > 0
    /\ frameLog[Len(frameLog)].ok
    /\ frameLog[Len(frameLog)].idx = frameLog[1].idx

---------------------------------------------------------------------------
(* Properties of main's loop and of the shutdown.                          *)

\* the main goroutine stands at a channel operation nobody will complete
MainBlocked ==
    \/ pc = "tick" /\ shouldClose /\ exitC = ChanCap
    \/ pc = "destroying" /\ tdQueue = <<>> /\ doneC = ChanCap
    \/ pc = "returned" /\ exitC = ChanCap
    \/ pc = "handler_wait" /\ doneC = 0

\* C6: once the main goroutine can go no further after the K open-window
\* ticks, VulkanDrawFrame has run K times, QueuePresent was issued K minus
\* the skipped frames times, exactly one teardown has run and the process
\* has exited; and teardown never runs twice.
C6_FramesThenOneTeardown ==
    /\ teardowns <= 1
    /\ (pc = "exited" \/ MainBlocked) =>
          /\ pc = "exited"
          /\ teardowns = 1
          /\ drawCalls = ticks
          /\ presentCalls = drawCalls - skipped

\* C7: whatever the select picks, the main goroutine is never left blocked
\* for good on one of its channels.
C7_MainNeverBlocks == ~MainBlocked

---------------------------------------------------------------------------
(* Properties of the teardown.                                             *)

\* DestroyInOrder has returned
TeardownDone == pc \in {"returned", "handler_wait", "exited"}

\* the order of destruction the design prescribes
TeardownPhases ==
    <<"command buffers", "command pool", "render pass", "swapchain objects",
      "pipeline", "pipeline cache", "pipeline layout", "static buffers",
      "device", "debug callback", "surface", "instance">>

PhaseIndex(name) == CHOOSE i \in DOMAIN TeardownPhases : TeardownPhases[i] = name

SwapchainOwned == {s.uniformBuffer[i].Buffer : i \in DOMAIN s.uniformBuffer}

PhaseOf(c) ==
    CASE c.api = "FreeCommandBuffers" -> "command buffers"
      [] c.api = "DestroyCommandPool" -> "command pool"
      [] c.api = "DestroyRenderPass" -> "render pass"
      [] c.api \in {"DestroyFramebuffer", "DestroyImageView", "DestroySwapchain",
                    "FreeMemory", "FreeDescriptorSets", "DestroyDescriptorPool",
                    "DestroyDescriptorSetLayout"} -> "swapchain objects"
      [] c.api = "DestroyBuffer" ->
            IF c.handles \subseteq SwapchainOwned THEN "swapchain objects"
            ELSE "static buffers"
      [] c.api = "DestroyPipeline" -> "pipeline"
      [] c.api = "DestroyPipelineCache" -> "pipeline cache"
      [] c.api = "DestroyPipelineLayout" -> "pipeline layout"
      [] c.api = "DestroyDevice" -> "device"
      [] c.api = "DestroyDebugReportCallback" -> "debug callback"
      [] c.api = "DestroySurface" -> "surface"
      [] OTHER -> "instance"

\* handles of the instance level; every other created handle is a child of
\* the logical device
InstanceLevel == {v.Instance, v.Surface, v.Device, v.dbg}

DestroyedAt(h) == {i \in DOMAIN destroyLog : h \in destroyLog[i].handles}

\* C8: DestroyInOrder issues its calls in the prescribed order, every stage
\* of it included (the debug callback only when installed); the device is
\* destroyed after every object it owns and the instance is destroyed last.
C8_TeardownOrder ==
    TeardownDone =>
       LET ph == [i \in DOMAIN destroyLog |-> PhaseIndex(PhaseOf(destroyLog[i]))] IN
       /\ \A i, j \in DOMAIN destroyLog : i < j => ph[i] <= ph[j]
       /\ \A p \in DOMAIN TeardownPhases :
             (TeardownPhases[p] # "debug callback" \/ v.dbg # Null)
                <=> (\E i \in DOMAIN destroyLog : ph[i] = p)
       /\ \A h \in created \ InstanceLevel :
             \E i \in DestroyedAt(h) : \A j \in DestroyedAt(v.Device) : i < j
       /\ destroyLog[Len(destroyLog)].api = "DestroyInstance"

\* C9: when the teardown has completed, every object created during setup
\* has been destroyed or freed exactly once.
C9_AllDestroyedOnce ==
    TeardownDone => \A h \in created : Cardinality(DestroyedAt(h)) = 1

\* C10: run after any prefix of the setup, the teardown does not panic on a
\* collection that was never built, destroys only handles that were created,
\* none of them twice, and uses no device-level handle once the device is
\* destroyed.
C10_TeardownOfPrefix ==
    /\ pc # "panicked"
    /\ \A i \in DOMAIN destroyLog :
          destroyLog[i].handles \ {Null} \subseteq created
    /\ \A h \in created : Cardinality(DestroyedAt(h)) <= 1
    /\ \A i, j \in DOMAIN destroyLog :
          (i < j /\ destroyLog[i].api = "DestroyDevice") =>
             destroyLog[j].device = Null

---------------------------------------------------------------------------
(* Properties of the per-image collections.                                *)

\* the lengths of the four per-image collections of the swapchain aggregate
PerImageLengths ==
    {SliceLen(s.uniformBuffer), SliceLen(s.Framebuffers),
     SliceLen(s.DisplayViews), SliceLen(s.descriptorSet)}

\* VulkanSwapchainInfo.Destroy has not yet reset s.Framebuffers and
\* s.DisplayViews
BeforeSwapchainReset ==
    \/ pc \in LoopPcs \cup {"teardown"}
    \/ \E i \in DOMAIN tdQueue : tdQueue[i].api = "s.Framebuffers = nil"

\* C11 (as the code has it): once setup has succeeded for a swapchain of N
\* images, the uniform-buffer, framebuffer, image-view and descriptor-set
\* collections each have exactly N elements, and they keep these lengths
\* until the teardown resets the framebuffer and image-view collections.
C11_EqualLengthsUntilReset ==
    BeforeSwapchainReset => PerImageLengths = {s.SwapchainLen[0]}

\* a frame has been drawn on a swapchain of more than one image
C11_Witness ==
    /\ s.SwapchainLen[0] > 1
    /\ PerImageLengths = {s.SwapchainLen[0]}
    /\ presentCalls > 0
    /\ pc = "select"

\* C11 (as stated): the four collections have N elements each at all times
\* after setup.
C11_EqualLengthsAlways == PerImageLengths = {s.SwapchainLen[0]}

---------------------------------------------------------------------------
(* Properties of the format selection of CreateSwapchain.                  *)

SwapchainCalled == callOut # NoCall /\ callIn.fn = "CreateSwapchain"

\* C12: CreateSwapchain succeeds only with a DisplayFormat that is one of
\* the two accepted formats and was reported by the adapter; when neither
\* is reported (and the calls before the selection succeeded) it returns
\* the "not found suitable format" error and has created neither a
\* swapchain nor a uniform buffer.
C12_FormatAcceptedAndReported ==
    SwapchainCalled =>
       /\ callOut.err = "nil" =>
             /\ callOut.val.DisplayFormat \in AcceptedFormats
             /\ callOut.val.DisplayFormat \in Range(callIn.formats)
       /\ (/\ Range(callIn.formats) \cap AcceptedFormats = {}
           /\ callIn.fail \notin {"vk.CreateDescriptorSetLayout",
                                  "vk.GetPhysicalDeviceSurfaceCapabilities"}) =>
             /\ callOut.err = "vk.GetPhysicalDeviceSurfaceFormats not found suitable format"
             /\ \A i \in DOMAIN callOut.calls :
                   callOut.calls[i] \notin {"vk.CreateSwapchain", "CreateUniformBuffers"}
             /\ callOut.val.Swapchains = 0 /\ callOut.val.uniformBuffer = 0

\* a call that failed for want of a suitable format although formats were
\* reported
C12_Witness ==
    /\ SwapchainCalled
    /\ DOMAIN callIn.formats # {}
    /\ callOut.err = "vk.GetPhysicalDeviceSurfaceFormats not found suitable format"

\* C13 (as the code has it): the chosen format is the first entry, in the
\* order the adapter reports them, that is one of the two accepted formats.
C13_FirstAcceptedAsReported ==
    (SwapchainCalled /\ callOut.err = "nil") =>
       \E i \in DOMAIN callIn.formats :
          /\ callOut.val.DisplayFormat = callIn.formats[i]
          /\ callIn.formats[i] \in AcceptedFormats
          /\ \A j \in DOMAIN callIn.formats :
                j < i => callIn.formats[j] \notin AcceptedFormats

\* R8G8B8A8_UNORM reported ahead of B8G8R8A8_UNORM, and chosen
C13_Witness ==
    /\ SwapchainCalled /\ callOut.err = "nil"
    /\ "B8G8R8A8_UNORM" \in Range(callIn.formats)
    /\ callOut.val.DisplayFormat = "R8G8B8A8_UNORM"

\* C13 (as stated): the chosen format is B8G8R8A8_UNORM whenever it is
\* reported, R8G8B8A8_UNORM otherwise, whatever the order of the report.
C13_PreferenceOrder ==
    (SwapchainCalled /\ callOut.err = "nil") =>
       callOut.val.DisplayFormat =
          (IF "B8G8R8A8_UNORM" \in Range(callIn.formats)
           THEN "B8G8R8A8_UNORM" ELSE "R8G8B8A8_UNORM")

---------------------------------------------------------------------------
(* Properties of NewVulkanDevice.                                          *)

DeviceCalled == callOut # NoCall /\ callIn.fn = "NewVulkanDevice"

\* the bootstrap step that fails first on the inputs of the call, "none" if
\* the bootstrap goes through
FailingStep ==
    IF callIn.fail = "vk.CreateDevice" /\ callIn.gpus = 0
    THEN "vk.EnumeratePhysicalDevices"
    ELSE IF callIn.fail = "none" /\ callIn.gpus = 0
    THEN "vk.EnumeratePhysicalDevices"
    ELSE callIn.fail

PositionsOf(api) == {i \in DOMAIN callOut.calls : callOut.calls[i].api = api}

\* C14: when a step of NewVulkanDevice fails, every object created before
\* the failure has been destroyed when the call is left, the surface before
\* the instance, and nothing is left alive.
C14_FailureUnwinds ==
    (DeviceCalled /\ FailingStep # "none") =>
       /\ callOut.val = {}
       /\ \A i \in PositionsOf("vk.DestroySurface") :
             \A j \in PositionsOf("vk.DestroyInstance") : i < j

\* the error each bootstrap step is reported with
StepError ==
    [x \in Range(BootstrapSteps) |->
        CASE x = "vk.CreateInstance" -> {"vk.CreateInstance failed"}
          [] x = "createSurfaceFunc" -> {"vkCreateWindowSurface failed"}
          [] x = "vk.EnumeratePhysicalDevices" ->
                {"vk.EnumeratePhysicalDevices failed",
                 "getPhysicalDevice: no GPUs found on the system"}
          [] OTHER -> {"vk.CreateDevice failed"}]

StepIndex(x) == CHOOSE k \in DOMAIN BootstrapSteps : BootstrapSteps[k] = x

\* C15: a failure of one of the four bootstrap calls (the zero-adapters
\* case included) makes NewVulkanDevice return the error of that call, and
\* no later bootstrap step is executed.
C15_FailureReported ==
    (DeviceCalled /\ FailingStep # "none") =>
       /\ callOut.err \in StepError[FailingStep]
       /\ \A i \in DOMAIN callOut.calls :
             callOut.calls[i].api \in Range(BootstrapSteps) =>
                StepIndex(callOut.calls[i].api) <= StepIndex(FailingStep)

---------------------------------------------------------------------------
(* Properties of main's setup.                                             *)

\* C16: VulkanDrawFrame is never called after a setup call in which a
\* Vulkan call failed: such a failure aborts the program before the loop.
C16_NoDrawAfterFailedSetup ==
    drawCalls > 0 => \A i \in DOMAIN setupLog : setupLog[i].ok

---------------------------------------------------------------------------
(* Properties of the descriptor pool.                                      *)

DescriptorsCalled == callOut # NoCall /\ callIn.fn = "CreateDescriptors"

\* C17: for N images and T textures the pool has room for N sets, N
\* uniform-buffer descriptors and, only when T > 0, N*T combined-image-
\* sampler descriptors; the layout has binding 1, of length T, only when
\* T > 0; and allocating the N sets never runs out of pool capacity.
C17_PoolSizedForImages ==
    DescriptorsCalled =>
       LET n == callIn.images
           tx == callIn.textures
           pool == callOut.val.pool
           layout == callOut.val.layout
       IN
       /\ pool.MaxSets = n
       /\ PoolCapacity(pool, "UniformBuffer") = n
       /\ PoolCapacity(pool, "CombinedImageSampler") = (IF tx > 0 THEN n * tx ELSE 0)
       /\ Len(pool.PoolSizes) = (IF tx > 0 THEN 2 ELSE 1)
       /\ (\E i \in DOMAIN layout : layout[i].Binding = 1) <=> tx > 0
       /\ \A i \in DOMAIN layout :
             layout[i].Binding = 1 => layout[i].DescriptorCount = tx
       /\ callIn.fail = "none" =>
             /\ callOut.err = "nil"
             /\ callOut.val.sets = n
             /\ \A ty \in DescriptorTypes :
                   n * SetNeeds(layout, ty) <= PoolCapacity(pool, ty)

\* all the sets of a swapchain of several images allocated, with several
\* textures
C17_Witness ==
    /\ DescriptorsCalled
    /\ callIn.images > 1 /\ callIn.textures > 1
    /\ callOut.err = "nil"
    /\ callOut.val.sets = callIn.images

----------------------------------------------------------------------------
(* Properties of the buffer uploads. *)

UploadCalled == callOut # NoCall /\ callIn.fn = "BufferUpload"

\* the position of a call in a call sequence, 0 when it was not made
CallPosition(calls, api) ==
    IF \E k \in 1..Len(calls) : calls[k] = api
    THEN CHOOSE k \in 1..Len(calls) : calls[k] = api
    ELSE 0

\* C18: an upload creates the buffer, queries its memory requirements and
\* picks a host-visible memory type, allocates, maps, copies, unmaps and
\* binds, in that order; when the creation, the allocation or the binding
\* fails it returns an error and the failed call is its last one.
C18_UploadOrder ==
    UploadCalled =>
        LET order == <<"vk.CreateBuffer", "vk.GetBufferMemoryRequirements",
                       "vk.FindMemoryTypeIndex", "vk.AllocateMemory",
                       "vk.MapMemory", "vk.Memcopy", "vk.UnmapMemory",
                       "vk.BindBufferMemory">>
            calls == callOut.calls
        IN
        /\ Len(calls) <= Len(order)
        /\ \A k \in 1..Len(calls) : calls[k] = order[k]
        /\ callOut.err = "nil" => calls = order
        /\ (/\ callIn.fail \in {"vk.CreateBuffer", "vk.AllocateMemory",
                                "vk.BindBufferMemory"}
            /\ CallPosition(calls, callIn.fail) > 0) =>
              /\ callOut.err \notin {"nil", "panic"}
              /\ calls[Len(calls)] = callIn.fail
              /\ callOut.val.bound = FALSE

C18_Witness ==
    /\ UploadCalled
    /\ callIn.fail = "vk.AllocateMemory"
    /\ callOut.err = "vk.AllocateMemory failed"
    /\ Len(callOut.calls) = 4
    /\ callOut.val.ptr = "nil"

\* C19: when the copy transfers a number of bytes other than the size the
\* buffer was created with and no native call fails, the upload logs a
\* warning, unmaps the memory, binds it and returns a nil error.
C19_ShortCopyOnlyWarns ==
    (/\ UploadCalled
     /\ callIn.fail = "none"
     /\ callOut.err # "panic"
     /\ SliceLen(callIn.data) # callIn.size) =>
        LET at(api) == CallPosition(callOut.calls, api) IN
        /\ callOut.val.warned
        /\ callOut.err = "nil"
        /\ callOut.val.ptr = "unmapped"
        /\ callOut.val.bound
        /\ 0 < at("vk.Memcopy")
        /\ at("vk.Memcopy") < at("vk.UnmapMemory")
        /\ at("vk.UnmapMemory") < at("vk.BindBufferMemory")

C19_Witness ==
    /\ UploadCalled
    /\ callIn.kind = "vertex"
    /\ SliceLen(callIn.data) < callIn.size
    /\ callIn.fail = "none"
    /\ callOut.val.warned
    /\ callOut.err = "nil"
    /\ callOut.val.bound

\* mapping the memory again and reading its first n bytes
Readback(mem, n) == [i \in 0..(n - 1) |-> mem[i]]

C21_DeclaredUsage ==
    (UploadCalled /\ callOut.err = "nil") =>
        /\ callIn.kind = "vertex" =>
              callOut.val.usage = "BufferUsageVertexBufferBit"
        /\ callIn.kind = "index" =>
              callOut.val.usage = "BufferUsageIndexBufferBit"

----------------------------------------------------------------------------
(* Properties of CreateGraphicsPipeline. *)

PipelineCalled == callOut # NoCall /\ callIn.fn = "CreateGraphicsPipeline"

\* the stages of CreateGraphicsPipeline in order, deferred calls left out
PipelineStageCalls ==
    SelectSeq(callOut.calls, LAMBDA c : c.api # "vk.DestroyShaderModule")

\* C22: a failing stage of CreateGraphicsPipeline (layout, shader loading,
\* cache, pipeline) gives a non-nil error and is the last stage executed; the
\* returned aggregate holds the layout and the cache exactly when they were
\* created; every shader module created is destroyed once, after its
\* creation and before the return, whether the call succeeds or fails.
C22_PipelineFailure ==
    PipelineCalled =>
        LET calls == callOut.calls
            stages == PipelineStageCalls
            made(api) == \E k \in DOMAIN calls : calls[k].api = api /\ calls[k].ok
        IN
        /\ callIn.fail.api # "none" =>
              /\ callOut.err # "nil"
              /\ stages[Len(stages)] = Made(callIn.fail.api, callIn.fail.obj, FALSE)
              /\ \A k \in 1..(Len(stages) - 1) : stages[k].ok
        /\ callIn.fail.api = "none" => callOut.err = "nil"
        /\ made("vk.CreatePipelineLayout") <=>
              callOut.val.pipelineLayout = H("PipelineLayout", 0)
        /\ ~made("vk.CreatePipelineLayout") => callOut.val.pipelineLayout = Null
        /\ made("vk.CreatePipelineCache") <=>
              callOut.val.pipelineCache = H("PipelineCache", 0)
        /\ ~made("vk.CreatePipelineCache") => callOut.val.pipelineCache = Null
        /\ \A k \in DOMAIN calls :
              (calls[k].api = "vk.CreateShaderModule" /\ calls[k].ok) =>
                 /\ Cardinality({j \in DOMAIN calls :
                        calls[j] = Made("vk.DestroyShaderModule", calls[k].obj, TRUE)}) = 1
                 /\ \E j \in DOMAIN calls :
                        /\ j > k
                        /\ calls[j] = Made("vk.DestroyShaderModule", calls[k].obj, TRUE)

C22_Witness ==
    /\ PipelineCalled
    /\ callIn.fail.api = "vk.CreateGraphicsPipelines"
    /\ callOut.err = "vk.CreateGraphicsPipelines failed"
    /\ callOut.val.pipelineCache = H("PipelineCache", 0)
    /\ callOut.val.pipeline = Null
    /\ Len(callOut.calls) = 9

----------------------------------------------------------------------------
(* Swapchain images, the semaphore and the queue across frames. *)

\* images acquired and not handed back through a present
HeldImages == {i \in DOMAIN images : images[i] = "acquired"}

\* C23: when a VulkanDrawFrame call starts no swapchain image is held
\* (acquired and not yet presented), so at most one image is held at any
\* time and never as many as the swapchain has.
C23_NoImageHeldAtFrameStart ==
    /\ pc = "acquire" => HeldImages = {}
    /\ Cardinality(HeldImages) <= 1

\* C24: each vk.AcquireNextImage is given the semaphore with no signal
\* outstanding on it: the signal of the acquire before was consumed by the
\* wait of a queue submission.
C24_SemaphoreFreeAtAcquire ==
    /\ pc = "acquire" => semSignals = 0
    /\ semSignals <= 1

\* C25: when DestroyInOrder starts, no command buffer submitted by an
\* earlier frame is still pending on the queue.
C25_QueueIdleAtTeardown ==
    pc = "teardown" => queue = <<>>

----------------------------------------------------------------------------
(* Properties of main's loop. *)

\* main has taken the exit case
TeardownBegun == teardowns > 0 \/ pc \in {"teardown", "destroying"}

\* main leaves the ticker case: the tick has been handled
TickHandled == pc = "tick" /\ pc' # "tick"

\* C26: a tick on which window.ShouldClose() is true starts no frame, and no
\* frame starts once the teardown has begun; a tick on which it is false
\* polls the window events and starts exactly one frame.
C26_DrawOnlyOnOpenTicks ==
    [][/\ (TickHandled /\ shouldClose) => drawCalls' = drawCalls
       /\ TeardownBegun => drawCalls' = drawCalls /\ pc' \notin LoopPcs
       /\ (TickHandled /\ ~shouldClose) =>
             /\ drawCalls' = drawCalls + 1
             /\ pc' = "acquire"
       /\ drawCalls' # drawCalls => TickHandled]_vars

C26_Witness ==
    /\ drawCalls = 2
    /\ ticks = 2
    /\ shouldClose
    /\ teardowns = 1
    /\ pc = "returned"

\* C27: whenever the deferred handler waits on doneC an acknowledgment is
\* there for it, also when main was left by a panic raised after the handler
\* was deferred.
C27_HandlerWaitTerminates ==
    pc = "handler_wait" => doneC > 0

----------------------------------------------------------------------------
(* Properties of the renderer package's teardown and textures. *)

RendererDestroyCalled == callOut # NoCall /\ callIn.fn = "RendererDestroy"

\* the vk.FreeDescriptorSets calls of the Destroy
FreeCalls ==
    {k \in DOMAIN callOut.calls : callOut.calls[k].api = "vk.FreeDescriptorSets"}

\* the array elements a call covers
Covered(c) == c.first .. (c.first + c.count - 1)

\* C28: the renderer's Destroy frees each of the N descriptor sets exactly
\* once, and every vk.FreeDescriptorSets call covers elements of the
\* N-element array only.
C28_EachSetFreedOnce ==
    RendererDestroyCalled =>
        /\ \A e \in 0..(callIn.images - 1) :
              Cardinality({k \in FreeCalls : e \in Covered(callOut.calls[k])}) = 1
        /\ \A k \in FreeCalls :
              callOut.calls[k].first + callOut.calls[k].count <= callIn.images

TextureCalled == callOut # NoCall /\ callIn.fn = "CreateTexture"

\* C29: a texture CreateTexture returns has its image, memory, sampler and
\* image-view fields set to the objects created for it, on the path where
\* mapping the image memory fails too.
C29_TextureFieldsSet ==
    (TextureCalled /\ callOut.err = "nil") =>
        /\ callOut.val.image = H("TextureImage", 0)
        /\ callOut.val.mem = H("TextureMemory", 0)
        /\ callOut.val.sampler = H("Sampler", 0)
        /\ callOut.val.view # Null

\* C30: in CreateVertexBuffers and CreateIndexBuffers, whatever the data
\* slice and the size argument, the number of bytes copied into the mapped
\* memory is at most the size of the buffer and of the mapped range, which
\* both are the size argument.
C30_CopyWithinBuffer ==
    (UploadCalled /\ callIn.kind \in {"vertex", "index"}) =>
        callOut.val.copied <= callIn.size

=============================================================================
